---------------------------- MODULE Spec2Model ----------------------------
(***************************************************************************)
(* Model of the giveaway bot (src/bot.py): the State store (seen set,      *)
(* per-URL post records, rate-limit usage ledger), the rate limiter, and   *)
(* the scan / cleanup orchestration of GiveawayBot.                        *)
(*                                                                         *)
(* Time is counted in ticks of 1/Res second, so that the int() truncation  *)
(* of State.allow is a real rounding step.                                 *)
(***************************************************************************)
EXTENDS Integers, Sequences, FiniteSets, TLC

VARIABLES
    seen,       \* State._seen: set of URLs
    posts,      \* State._posts: dict url -> list of records, in key order
    usage,      \* State._usage: dict key -> list of timestamps
    disk,       \* the snapshot file written by State.save (NoFile before)
    now,        \* the wall clock, in ticks
    ret,        \* the last completed State operation, its inputs and result
    admits,     \* history: per key, the timestamps allow() admitted
    lim,        \* the limit passed to allow() in the rate-limiter runs
    win,        \* the window (seconds) passed to allow() in those runs
    nextId,     \* the id the next delivered message gets (ids are unique)
    channels,   \* ChannelsConfig._channels: guild -> channel, in key order
    msgs,       \* the chat platform: per channel, its messages, oldest first
    scan,       \* per scan handler, its position and locals
    cleanup,    \* the _cleanup_loop task: its position and locals
    regChanges, \* history: <<guild, time>> of each applied registry change
    writable,   \* whether the snapshot file can be written
    sources     \* GiveawayBot.sources: the source URLs, in order

store == <<seen, posts, usage, disk>>
bot == <<channels, msgs, scan, cleanup, regChanges, writable, sources>>
vars == <<seen, posts, usage, disk, now, ret, admits, lim, win, nextId,
          channels, msgs, scan, cleanup, regChanges, writable, sources>>

----------------------------------------------------------------------------
\* Bounds of the model.
Res == 2            \* ticks per second
MaxTime == 3        \* the clock stops at this tick
MaxLimit == 2       \* limits tried: 1..MaxLimit
MaxWindow == 2      \* windows tried: 1..MaxWindow seconds
MaxMsgId == 4       \* messages delivered in one run: ids 1..MaxMsgId

URLs == {"u1", "u2"}
Channels == {1, 2}
Guilds == {1, 2}
Procs == {"loop", "msg", "cmd"}              \* the handlers that scan
Handlers == Procs \cup {"preview", "clear"}  \* and the /preview and /clear commands
Sources == <<"s1", "s2">>      \* the sources of sources.json
Keys == {<<"k", 1>>, <<"k", 2>>}
ScanKey(c) == <<"scan:channel", c>>
SetChannelKey(g) == <<"setchannel:guild", g>>
PreviewKey(c) == <<"preview:channel", c>>
CmdKeys ==
    {ScanKey(c) : c \in Channels} \cup {SetChannelKey(g) : g \in Guilds}
    \cup {PreviewKey(c) : c \in Channels}
AllKeys == Keys \cup CmdKeys
NoFile == [exists |-> FALSE, seen |-> {}, posts |-> <<>>, usage |-> <<>>]
NoRet == [op |-> "none"]

----------------------------------------------------------------------------
\* Sequence helpers.
Max0(x) == IF x > 0 THEN x ELSE 0

SeqMin(s) == CHOOSE t \in {s[i] : i \in DOMAIN s} :
                 \A j \in DOMAIN s : t <= s[j]

----------------------------------------------------------------------------
\* State: the post index, a dict kept as an association list in key order.

Rec(c, m) == [channel_id |-> c, message_id |-> m]

PostsHas(p, u) == \E i \in DOMAIN p : p[i].url = u

PostsIdx(p, u) == CHOOSE i \in DOMAIN p : p[i].url = u

\* State.posts_for / self._posts.get(url, [])
posts_for(p, u) == IF PostsHas(p, u) THEN p[PostsIdx(p, u)].entries ELSE <<>>

\* State.all_urls_with_posts
all_urls_with_posts(p) == [i \in DOMAIN p |-> p[i].url]

\* A slip of record_post: the two ids change places.
RecordSwapsIds(p, u, c, m) ==
    IF u = "" THEN p
    ELSE IF PostsHas(p, u)
         THEN [p EXCEPT ![PostsIdx(p, u)].entries = Append(@, Rec(m, c))]
         ELSE Append(p, [url |-> u, entries |-> <<Rec(m, c)>>])

\* State.record_post
record_post(p, u, c, m) ==
    IF u = "" THEN p
    ELSE IF PostsHas(p, u)
         THEN [p EXCEPT ![PostsIdx(p, u)].entries = Append(@, Rec(c, m))]
         ELSE Append(p, [url |-> u, entries |-> <<Rec(c, m)>>])

\* State.remove_url, the _posts part
remove_url(p, u) == SelectSeq(p, LAMBDA e : e.url # u)

\* A slip of has_post_in_channel: a record of any channel counts.
HasPostAnyChannel(p, u, c) == posts_for(p, u) # <<>>

\* State.has_post_in_channel
has_post_in_channel(p, u, c) ==
    \E i \in DOMAIN posts_for(p, u) : posts_for(p, u)[i].channel_id = c

\* new_entries of State.remove_channel_posts
NewEntries(entries, c) == SelectSeq(entries, LAMBDA r : r.channel_id # c)

RECURSIVE RemoveChannelLoop(_, _)
RemoveChannelLoop(p, c) ==
    IF p = <<>> THEN <<>>
    ELSE LET e == Head(p)
             ne == NewEntries(e.entries, c)
             rest == RemoveChannelLoop(Tail(p), c)
         IN  IF Len(ne) # Len(e.entries)
             THEN IF ne # <<>>
                  THEN <<[e EXCEPT !.entries = ne]>> \o rest
                  ELSE rest
             ELSE <<e>> \o rest

\* A slip of remove_channel_posts: an entry left without records is dropped
\* whether or not it lost one.
RemoveChannelDropsEmpty(p, c) ==
    SelectSeq([i \in DOMAIN p |-> [p[i] EXCEPT !.entries = NewEntries(@, c)]],
              LAMBDA e : e.entries # <<>>)

\* A slip of remove_channel_posts: the record of a message that is still in
\* the channel is kept.
RemoveDeletedOnly(p, c) ==
    LET Gone(r) == \A i \in DOMAIN msgs[r.channel_id] :
                       msgs[r.channel_id][i].id # r.message_id
        Keep(r) == r.channel_id # c \/ ~Gone(r)
    IN  SelectSeq([i \in DOMAIN p |->
                      [p[i] EXCEPT !.entries = SelectSeq(@, Keep)]],
                  LAMBDA e : e.entries # <<>>)

\* State.remove_channel_posts: the new _posts
remove_channel_posts(p, c) == RemoveChannelLoop(p, c)

\* State.remove_channel_posts: the returned flag
remove_channel_changed(p, c) ==
    \E i \in DOMAIN p : Len(NewEntries(p[i].entries, c)) # Len(p[i].entries)

----------------------------------------------------------------------------
\* State: the rate limiter.

UsageGet(us, k) == IF k \in DOMAIN us THEN us[k] ELSE <<>>

UsagePut(us, k, v) == [x \in DOMAIN us \cup {k} |-> IF x = k THEN v ELSE us[x]]

\* A slip of _prune_usage: an entry exactly one window old is kept.
PruneKeepsBoundary(entries, window, t) ==
    SelectSeq(entries, LAMBDA e : t - e <= window * Res)

\* State._prune_usage: the entries kept
prune_usage(entries, window, t) ==
    SelectSeq(entries, LAMBDA e : t - e < window * Res)

\* A slip of allow: one call too many is admitted.
DeniedOffByOne(entries, limit) == Len(entries) > limit

\* State.allow: the deny test
allow_denied(entries, limit) == Len(entries) >= limit

\* State.allow: retry_after, truncated to whole seconds
retry_after(entries, window, t) ==
    LET oldest == IF entries # <<>> THEN SeqMin(entries) ELSE t
    IN  Max0(window * Res - (t - oldest)) \div Res

\* State.save: the snapshot written
Snapshot(s, p, us) == [exists |-> TRUE, seen |-> s, posts |-> p, usage |-> us]

\* State.save: the file afterwards; a write error is swallowed and leaves it
save(s, p, us) == IF writable THEN Snapshot(s, p, us) ELSE disk

\* State.allow(key, limit, window_seconds, now): the returned pair
allow_result(key, limit, window) ==
    LET entries == prune_usage(UsageGet(usage, key), window, now)
    IN  IF allow_denied(entries, limit)
        THEN [allowed |-> FALSE, retry |-> retry_after(entries, window, now)]
        ELSE [allowed |-> TRUE, retry |-> 0]

\* A slip of allow: a denied call is entered in the ledger as well.
AllowCountsDenied(key, limit, window) ==
    LET entries == prune_usage(UsageGet(usage, key), window, now)
    IN  /\ usage' = UsagePut(usage, key, Append(entries, now))
        /\ IF allow_denied(entries, limit)
           THEN UNCHANGED <<disk, admits>>
           ELSE /\ admits' = [admits EXCEPT ![key] = Append(@, now)]
                /\ disk' = save(seen, posts, usage')

\* A slip of allow: the snapshot is written before the timestamp is appended.
AllowSavesFirst(key, limit, window) ==
    LET entries == prune_usage(UsageGet(usage, key), window, now)
    IN  IF allow_denied(entries, limit)
        THEN /\ usage' = UsagePut(usage, key, entries)
             /\ UNCHANGED <<disk, admits>>
        ELSE /\ usage' = UsagePut(usage, key, Append(entries, now))
             /\ admits' = [admits EXCEPT ![key] = Append(@, now)]
             /\ disk' = save(seen, posts, UsagePut(usage, key, entries))

\* State.allow(key, limit, window_seconds, now): its effect on the store
allow(key, limit, window) ==
    LET entries == prune_usage(UsageGet(usage, key), window, now)
    IN  IF allow_denied(entries, limit)
        THEN /\ usage' = UsagePut(usage, key, entries)
             /\ UNCHANGED <<disk, admits>>
        ELSE /\ usage' = UsagePut(usage, key, Append(entries, now))
             /\ admits' = [admits EXCEPT ![key] = Append(@, now)]
             /\ disk' = save(seen, posts, usage')

----------------------------------------------------------------------------
\* GiveawayBot: the handlers' locals when nothing runs.

\* A scan handler (the _scan_loop task, on_message, the /scan command):
\*   pc       where it is suspended; "done" / "aborted": its cycle has
\*            ended (returned / raised) and its locals are still in view
\*   dest     the channel the request came from (on_message, /scan)
\*   got      per source fetched so far, its outcome
\*   batch    new_items / batch
\*   chans    the channels still to serve, the first being served
\*   links    existing_links of the channel being served
\*   item     index in batch of the item being sent
\*   failed   whether a fetch, a channel, a history read or a send has
\*            failed in this cycle
\*   vis      <<channel, url>> for each url of a computed existing_links
\*   snap     the channels the delivery started with
\*   admitted whether allow() admitted the cycle
\*   handed   whether the batch was passed to a delivery loop
\*   raced    history: whether, since this handler found its current item not
\*            to be a duplicate, another handler recorded a delivery of the
\*            same URL to the same channel
\*   targets  /preview: the sources it fetches
\*   to_delete  /clear: the message ids still to delete
IdleScan ==
    [pc |-> "idle", dest |-> 0, got |-> <<>>, batch |-> <<>>, chans |-> <<>>,
     links |-> {}, item |-> 0, failed |-> FALSE, vis |-> {}, snap |-> <<>>,
     admitted |-> FALSE, handed |-> FALSE, raced |-> FALSE,
     targets |-> <<>>, to_delete |-> <<>>]

\* The _cleanup_loop task:
\*   urls     the URLs still to check, the first being checked
\*   active   active_channels
\*   recs     the records of the current URL still to delete
\*   expired  history: the URLs is_expired() returned true for in this cycle
\*   spared   history: the URLs whose probe found them live or failed on the
\*            network in this cycle
\*   tried    history: the ids of the messages it tried to fetch and delete
\*   pre      history: the seen set and the post index when the cycle began
IdleCleanup ==
    [pc |-> "idle", urls |-> <<>>, active |-> {}, recs |-> <<>>, expired |-> {},
     spared |-> {}, tried |-> {}, pre |-> [seen |-> {}, posts |-> <<>>]]

BotIdle ==
    /\ channels = <<>>
    /\ msgs = [c \in Channels |-> <<>>]
    /\ scan = [p \in Handlers |-> IdleScan]
    /\ cleanup = IdleCleanup
    /\ regChanges = <<>>
    /\ writable \in BOOLEAN
    /\ sources = Sources

----------------------------------------------------------------------------
\* The chat platform, the extractor and the channel registry.

Day == 86400            \* 24*3600 seconds, the window of every command limit
HistoryLimit == 200     \* ch.history(limit=200)
ScanLimit == 1          \* /scan: once per window and channel
SetChannelLimit == 2    \* /setchannel: twice per window and guild
MaxHalfDays == 2        \* the clock of the bot runs stops after this many half days
MaxPage == 1            \* candidates one source page yields at most
MaxRegChanges == 3      \* registry changes applied in one run

HalfDayTicks == (Day * Res) \div 2

\* What fetch_giveaway_links can return: URLs in document order, deduplicated.
Pages ==
    {pg \in UNION {[1..n -> URLs] : n \in 0..MaxPage} :
        \A i, j \in DOMAIN pg : pg[i] = pg[j] => i = j}

FetchOutcomes ==
    {[ok |-> FALSE, items |-> <<>>]} \cup {[ok |-> TRUE, items |-> pg] : pg \in Pages}

\* A message: its id, whether the bot wrote it, and its second line ("" if
\* it has none).
Msg(id, byBot, link) == [id |-> id, bot |-> byBot, link |-> link]

\* ch.history(limit=200): the most recent messages
Recent(ms) ==
    IF Len(ms) <= HistoryLimit THEN ms
    ELSE SubSeq(ms, Len(ms) - HistoryLimit + 1, Len(ms))

\* existing_links: the second line of every recent message that has one
existing_links(ms) == {Recent(ms)[i].link : i \in DOMAIN Recent(ms)} \ {""}

\* The text channel a guild's commands are issued in.
ChanOf(g) == g

RegHas(ch, g) == \E i \in DOMAIN ch : ch[i].guild = g

\* ChannelsConfig.get_channel (0 for None)
get_channel(ch, g) ==
    IF RegHas(ch, g) THEN ch[CHOOSE i \in DOMAIN ch : ch[i].guild = g].channel
    ELSE 0

\* ChannelsConfig.set_channel (c = 0 for None)
set_channel(ch, g, c) ==
    IF c = 0 THEN SelectSeq(ch, LAMBDA e : e.guild # g)
    ELSE IF RegHas(ch, g)
         THEN [ch EXCEPT ![CHOOSE i \in DOMAIN ch : ch[i].guild = g].channel = c]
         ELSE Append(ch, [guild |-> g, channel |-> c])

\* ChannelsConfig.all_channel_ids
all_channel_ids(ch) == [i \in DOMAIN ch |-> ch[i].channel]

\* active_channels of the two loops
active_channels(ch) == {ch[i].channel : i \in DOMAIN ch} \ {0}

----------------------------------------------------------------------------
\* Delivery: _post_items_all_channels and _post_items_to_channel.

\* A slip of the duplicate test: the post index is not consulted.
DuplicateByLinksOnly(link, links, p, c) == link \in links

\* A slip of the duplicate test: a URL of the seen set counts as delivered.
DuplicateOrSeen(link, links, p, c) ==
    link \in seen \/ link \in links \/ has_post_in_channel(p, link, c)

\* The duplicate test of both delivery loops
is_duplicate(link, links, p, c) ==
    link \in links \/ has_post_in_channel(p, link, c)

\* A slip of the item loop: the last item that is to be sent is taken first.
NextToSendLast(batch, from, links, p, c) ==
    LET cand == {i \in from..Len(batch) : ~is_duplicate(batch[i], links, p, c)}
    IN  IF cand = {} THEN 0 ELSE CHOOSE i \in cand : \A j \in cand : i >= j

\* The first item from index `from` on that is to be sent, 0 if there is none
NextToSend(batch, from, links, p, c) ==
    LET cand == {i \in from..Len(batch) : ~is_duplicate(batch[i], links, p, c)}
    IN  IF cand = {} THEN 0 ELSE CHOOSE i \in cand : \A j \in cand : i <= j

\* The handler of p returns or raises: its cycle is over.
EndScan(p, sc, how, handed) ==
    scan' = [scan EXCEPT ![p] = [sc EXCEPT !.pc = how, !.handed = handed]]

\* The channel loop takes up the next channel; after the last one the caller
\* saves the store (a write error is swallowed) and returns.
NextChannel(p, sc, pst) ==
    IF sc.chans # <<>>
    THEN /\ scan' = [scan EXCEPT ![p] = [sc EXCEPT !.pc = "resolve",
                                                  !.links = {}, !.item = 0]]
         /\ UNCHANGED disk
    ELSE /\ disk' = save(seen, pst, usage)
         /\ EndScan(p, sc, "done", TRUE)

\* The item loop goes on from index `from`: up to the next send, or to the end
\* of the batch.
Proceed(p, sc, from, pst) ==
    LET i == NextToSend(sc.batch, from, sc.links, pst, Head(sc.chans))
    IN  IF i # 0
        THEN /\ scan' = [scan EXCEPT ![p] = [sc EXCEPT !.pc = "send", !.item = i,
                                                       !.raced = FALSE]]
             /\ UNCHANGED disk
        ELSE NextChannel(p, [sc EXCEPT !.chans = Tail(@)], pst)

\* A cycle begins: with no source the loop over the sources is passed at
\* once and the batch is empty.
Begin(sc) == [sc EXCEPT !.pc = IF sources = <<>> THEN "done" ELSE "fetch"]

\* A slip of _scan_loop: the cycle runs whether or not a channel is active.
StartLoopUnguarded ==
    /\ scan["loop"].pc = "idle"
    /\ scan' = [scan EXCEPT !["loop"] = Begin(IdleScan)]
    /\ UNCHANGED <<store, now, ret, admits, lim, win, nextId,
                   channels, msgs, cleanup, regChanges, writable, sources>>

\* _scan_loop: the 24h timer fires; without an active channel or without a
\* source the cycle returns at once.
StartLoop ==
    /\ scan["loop"].pc = "idle"
    /\ scan' = [scan EXCEPT !["loop"] =
                    IF active_channels(channels) = {} \/ sources = <<>>
                    THEN [IdleScan EXCEPT !.pc = "done"]
                    ELSE Begin(IdleScan)]
    /\ UNCHANGED <<store, now, ret, admits, lim, win, nextId,
                   channels, msgs, cleanup, regChanges, writable, sources>>

\* on_message: "scan now" written in a configured channel
on_message(c) ==
    /\ scan["msg"].pc = "idle"
    /\ c \in {channels[i].channel : i \in DOMAIN channels}
    /\ scan' = [scan EXCEPT !["msg"] = Begin([IdleScan EXCEPT !.dest = c])]
    /\ UNCHANGED <<store, now, ret, admits, lim, win, nextId,
                   channels, msgs, cleanup, regChanges, writable, sources>>

\* scan_now: the /scan command in text channel c
scan_now(c) ==
    /\ scan["cmd"].pc = "idle"
    /\ allow(ScanKey(c), ScanLimit, Day)
    /\ scan' = IF allow_result(ScanKey(c), ScanLimit, Day).allowed
               THEN [scan EXCEPT !["cmd"] = Begin([IdleScan EXCEPT !.dest = c,
                                                                 !.admitted = TRUE])]
               ELSE scan
    /\ UNCHANGED <<seen, posts, now, ret, lim, win, nextId,
                   channels, msgs, cleanup, regChanges, writable, sources>>

\* One source is fetched. _scan_once skips a source that raises; scan_now has
\* one try around the whole cycle.
FetchSource(p) ==
    /\ scan[p].pc = "fetch"
    /\ \E out \in FetchOutcomes :
        LET sc == [scan[p] EXCEPT !.got = Append(@, out),
                                  !.batch = @ \o out.items,
                                  !.failed = @ \/ ~out.ok]
            dst == IF p = "cmd" THEN <<sc.dest>> ELSE all_channel_ids(channels)
        IN  IF ~out.ok /\ p = "cmd"
            THEN EndScan(p, sc, "aborted", FALSE) /\ UNCHANGED disk
            ELSE IF Len(sc.got) < Len(sources)
            THEN scan' = [scan EXCEPT ![p] = sc] /\ UNCHANGED disk
            ELSE IF sc.batch = <<>>
            THEN EndScan(p, sc, "done", FALSE) /\ UNCHANGED disk
            ELSE NextChannel(p, [sc EXCEPT !.chans = dst, !.snap = dst], posts)
    /\ UNCHANGED <<seen, posts, usage, now, ret, admits, lim, win, nextId,
                   channels, msgs, cleanup, regChanges, writable, sources>>

\* get_channel / fetch_channel of the channel to serve
Resolve(p) ==
    /\ scan[p].pc = "resolve"
    /\ \E out \in {"ok", "raise", "nontext"} :
        IF out = "ok"
        THEN /\ scan' = [scan EXCEPT ![p].pc = "history"]
             /\ UNCHANGED disk
        ELSE NextChannel(p, [scan[p] EXCEPT !.chans = Tail(@),
                                            !.failed = TRUE], posts)
    /\ UNCHANGED <<seen, posts, usage, now, ret, admits, lim, win, nextId,
                   channels, msgs, cleanup, regChanges, writable, sources>>

\* ch.history(limit=200), outside any try
ReadHistory(p) ==
    /\ scan[p].pc = "history"
    /\ \E ok \in BOOLEAN :
        LET c == Head(scan[p].chans)
            links == existing_links(msgs[c])
        IN  IF ok
            THEN Proceed(p, [scan[p] EXCEPT !.links = links,
                                            !.vis = @ \cup {<<c, u>> : u \in links}],
                         1, posts)
            ELSE /\ EndScan(p, [scan[p] EXCEPT !.failed = TRUE],
                            "aborted", TRUE)
                 /\ UNCHANGED disk
    /\ UNCHANGED <<seen, posts, usage, now, ret, admits, lim, win, nextId,
                   channels, msgs, cleanup, regChanges, writable, sources>>

\* ch.send returns: the message exists and is recorded
SendOk(p) ==
    /\ scan[p].pc = "send"
    /\ nextId <= MaxMsgId
    /\ LET c == Head(scan[p].chans)
           u == scan[p].batch[scan[p].item]
       IN  /\ msgs' = [msgs EXCEPT ![c] = Append(@, Msg(nextId, TRUE, u))]
           /\ posts' = record_post(posts, u, c, nextId)
    /\ nextId' = nextId + 1
    /\ scan' = [q \in Handlers |->
                   IF q = p THEN [scan[p] EXCEPT !.pc = "sleep"]
                   ELSE IF /\ q \in Procs /\ scan[q].pc = "send"
                           /\ Head(scan[q].chans) = Head(scan[p].chans)
                           /\ scan[q].batch[scan[q].item] = scan[p].batch[scan[p].item]
                        THEN [scan[q] EXCEPT !.raced = TRUE]
                        ELSE scan[q]]
    /\ UNCHANGED <<seen, usage, disk, now, ret, admits, lim, win,
                   channels, cleanup, regChanges, writable, sources>>

\* ch.send raises: logged, the loop goes on with the next item
SendFail(p) ==
    /\ scan[p].pc = "send"
    /\ Proceed(p, [scan[p] EXCEPT !.failed = TRUE], scan[p].item + 1, posts)
    /\ UNCHANGED <<seen, posts, usage, now, ret, admits, lim, win, nextId,
                   channels, msgs, cleanup, regChanges, writable, sources>>

\* The handler has returned or raised: its locals are gone.
Return(p) ==
    /\ scan[p].pc \in {"done", "aborted"}
    /\ scan' = [scan EXCEPT ![p] = IdleScan]
    /\ UNCHANGED <<store, now, ret, admits, lim, win, nextId,
                   channels, msgs, cleanup, regChanges, writable, sources>>

\* asyncio.sleep(1.2) is over
Sleep(p) ==
    /\ scan[p].pc = "sleep"
    /\ Proceed(p, scan[p], scan[p].item + 1, posts)
    /\ UNCHANGED <<seen, posts, usage, now, ret, admits, lim, win, nextId,
                   channels, msgs, cleanup, regChanges, writable, sources>>

----------------------------------------------------------------------------
\* What the claims speak of.

\* The DeliveryRecords of (u, d) in the post index
Records(u, d) ==
    {i \in DOMAIN posts_for(posts, u) : posts_for(posts, u)[i].channel_id = d}

\* The messages of the bot in channel d whose second line is u
Delivered(u, d) ==
    {i \in DOMAIN msgs[d] : msgs[d][i].bot /\ msgs[d][i].link = u}

----------------------------------------------------------------------------
\* The rate limiter on its own: one limit and window, calls at clock time.

\* The store before an operation
Pre == [seen |-> seen, posts |-> posts, usage |-> usage]

AllowCall(key) ==
    /\ allow(key, lim, win)
    /\ ret' = [op |-> "allow", key |-> key, at |-> now, prev |-> admits[key],
               allowed |-> allow_result(key, lim, win).allowed,
               retry |-> allow_result(key, lim, win).retry,
               pre |-> Pre, predisk |-> disk, booted |-> ret.op = "restart"]
    /\ UNCHANGED <<seen, posts, now, lim, win, nextId, bot>>

Tick ==
    /\ now < MaxTime
    /\ now' = now + 1
    /\ UNCHANGED <<seen, posts, usage, disk, ret, admits, lim, win, nextId, bot>>

InitAllow ==
    /\ seen = {}
    /\ posts = <<>>
    /\ usage = <<>>
    /\ disk = NoFile
    /\ now = 0
    /\ ret = NoRet
    /\ admits = [k \in AllKeys |-> <<>>]
    /\ lim \in 1..MaxLimit
    /\ win \in 1..MaxWindow
    /\ nextId = 1
    /\ BotIdle

NextAllow ==
    \/ Tick
    \/ \E k \in Keys : AllowCall(k)

SpecAllow == InitAllow /\ [][NextAllow]_vars

\* C2: with limit 1, a call made less than one window after the last admitted
\* call on the key is denied with retry_after = floor(window - elapsed); a call
\* made one window or more after it is admitted.
C2_Cooldown ==
    (ret.op = "allow" /\ lim = 1 /\ ret.prev # <<>>) =>
        LET t0 == ret.prev[Len(ret.prev)]
        IN  IF ret.at < t0 + win * Res
            THEN /\ ~ret.allowed
                 /\ ret.retry = (win * Res - (ret.at - t0)) \div Res
            ELSE ret.allowed

\* A denial a fraction of a second into the cooldown of a key that has
\* already been admitted, expired and admitted again.
C2_Witness ==
    /\ ret.op = "allow" /\ lim = 1 /\ ~ret.allowed
    /\ Len(ret.prev) >= 2
    /\ (ret.at - ret.prev[Len(ret.prev)]) % Res # 0

\* C3: for every key, any half-open interval of one window length holds at
\* most `lim` admitted timestamps.
C3_WindowBound ==
    \A k \in Keys : \A a \in 0..MaxTime :
        Cardinality({i \in DOMAIN admits[k] :
                        a <= admits[k][i] /\ admits[k][i] < a + win * Res}) <= lim

\* A key that used up its limit, was denied, and was admitted again later.
C3_Witness ==
    /\ ret.op = "allow" /\ ~ret.allowed
    /\ Len(admits[ret.key]) > lim

----------------------------------------------------------------------------
\* The store operations on their own, applied to drawn inputs.

RecordPost(u, c) ==
    /\ nextId <= MaxMsgId
    /\ posts' = record_post(posts, u, c, nextId)
    /\ nextId' = IF u = "" THEN nextId ELSE nextId + 1
    /\ ret' = [op |-> "record_post", url |-> u, pre |-> Pre]
    /\ UNCHANGED <<seen, usage, disk, now, admits, lim, win, bot>>

\* State.remember
Remember(u) ==
    /\ seen' = IF u # "" THEN seen \cup {u} ELSE seen
    /\ ret' = [op |-> "remember", url |-> u, pre |-> Pre]
    /\ UNCHANGED <<posts, usage, disk, now, admits, lim, win, nextId, bot>>

\* State.remove_url
RemoveUrl(u) ==
    /\ seen' = seen \ {u}
    /\ posts' = remove_url(posts, u)
    /\ ret' = [op |-> "remove_url", url |-> u, pre |-> Pre]
    /\ UNCHANGED <<usage, disk, now, admits, lim, win, nextId, bot>>

RemoveChannelPosts(c) ==
    /\ posts' = remove_channel_posts(posts, c)
    /\ ret' = [op |-> "remove_channel_posts", arg |-> c,
               changed |-> remove_channel_changed(posts, c), pre |-> Pre]
    /\ UNCHANGED <<seen, usage, disk, now, admits, lim, win, nextId, bot>>

\* A store as State._load can leave it: a snapshot may hold a URL whose
\* record list is empty, and a usage list of some key.
InitStore ==
    /\ seen \in {{}, {"u1"}}
    /\ posts \in {<<>>, <<[url |-> "u1", entries |-> <<>>]>>}
    /\ usage = [k \in {<<"k", 1>>} |-> <<0>>]
    /\ disk = NoFile
    /\ now = 0
    /\ ret = NoRet
    /\ admits = [k \in AllKeys |-> <<>>]
    /\ lim = 1
    /\ win = 1
    /\ nextId = 1
    /\ BotIdle

NextStore ==
    \/ \E u \in URLs \cup {""}, c \in Channels : RecordPost(u, c)
    \/ \E u \in URLs \cup {""} : Remember(u)
    \/ \E u \in URLs : RemoveUrl(u)
    \/ \E c \in Channels : RemoveChannelPosts(c)

SpecStore == InitStore /\ [][NextStore]_vars

\* C10: remove_channel_posts(d) keeps, per URL, exactly the records of other
\* destinations in their order; drops a URL's entry only if it had records and
\* all were for d; keeps the key order, the seen set and the usage ledger; and
\* returns true iff a record was removed.
C10_DestinationReset ==
    ret.op = "remove_channel_posts" =>
        LET pre == ret.pre.posts
            d == ret.arg
            Kept(u) == SelectSeq(posts_for(pre, u), LAMBDA r : r.channel_id # d)
            AllForD(u) == /\ posts_for(pre, u) # <<>>
                          /\ \A i \in DOMAIN posts_for(pre, u) :
                                 posts_for(pre, u)[i].channel_id = d
        IN  /\ \A u \in URLs : posts_for(posts, u) = Kept(u)
            /\ \A u \in URLs :
                   PostsHas(posts, u) <=> (PostsHas(pre, u) /\ ~AllForD(u))
            /\ all_urls_with_posts(posts) =
                   SelectSeq(all_urls_with_posts(pre), LAMBDA u : ~AllForD(u))
            /\ seen = ret.pre.seen
            /\ usage = ret.pre.usage
            /\ ret.changed <=>
                   \E u \in URLs : \E i \in DOMAIN posts_for(pre, u) :
                       posts_for(pre, u)[i].channel_id = d

\* A reset that dropped one URL's entry, trimmed another's and kept its
\* records of the other destination.
C10_Witness ==
    /\ ret.op = "remove_channel_posts" /\ ret.changed
    /\ \E u \in URLs : PostsHas(ret.pre.posts, u) /\ ~PostsHas(posts, u)
    /\ \E u \in URLs : /\ posts_for(posts, u) # <<>>
                       /\ Len(posts_for(posts, u)) < Len(posts_for(ret.pre.posts, u))

----------------------------------------------------------------------------
\* Persistence: the document State.save writes and State._load reads.

UrlOrder == <<"u1", "u2">>      \* the URLs in sorted order

\* sorted(self._seen)
sorted(s) == SelectSeq(UrlOrder, LAMBDA u : u \in s)

\* The keys of a dict in some order
KeyList(f) ==
    CHOOSE q \in [1..Cardinality(DOMAIN f) -> DOMAIN f] :
        \A i, j \in DOMAIN q : q[i] = q[j] => i = j

\* A JSON value where _load expects an id or a timestamp: tag and number.
\*   "int"     the integer n (not negative)
\*   "digits"  a string of ASCII digits spelling n
\*   "super"   a string of superscript digits: str.isdigit() is true of it
\*             and int() raises ValueError
\*   "word"    a value whose str() is not all digits (a word, a float, -1)
\*   "none"    the key is missing
\*   "num"     a JSON number, the timestamp n
\*   "numstr"  a string float() can read as n
Scalar(t, n) == [t |-> t, n |-> n]

\* str(x).isdigit()
isdigit(v) == v.t \in {"int", "digits", "super"}

\* int(x) raises
int_raises(v) == v.t \notin {"int", "digits"}

\* float(t) raises
float_raises(v) == v.t \notin {"num", "numstr", "int", "digits"}

\* A record of the "posts" lists: whether it is a dict, and its two ids
RawRec(isDict, c, m) == [dict |-> isDict, channel_id |-> c, message_id |-> m]

\* A file: absent, not a JSON text ("garbage"), a JSON dict or a JSON list
\* (the old format). ok: the member is there and has the type _load expects.
Doc(kind, sn, ps, us) == [kind |-> kind, seen |-> sn, posts |-> ps, usage |-> us]

Member(ok, items) == [ok |-> ok, items |-> items]

NoDoc == Doc("absent", Member(FALSE, <<>>), Member(FALSE, <<>>), Member(FALSE, <<>>))

\* json.dumps(payload) of State.save
dumps(snap) ==
    IF ~snap.exists THEN NoDoc
    ELSE Doc("dict",
             Member(TRUE, sorted(snap.seen)),
             Member(TRUE,
                 [i \in DOMAIN snap.posts |->
                     [url |-> snap.posts[i].url, ok |-> TRUE,
                      entries |->
                          [j \in DOMAIN snap.posts[i].entries |->
                              RawRec(TRUE,
                                  Scalar("int", snap.posts[i].entries[j].channel_id),
                                  Scalar("int", snap.posts[i].entries[j].message_id))]]]),
             Member(TRUE,
                 [i \in 1..Cardinality(DOMAIN snap.usage) |->
                     [key |-> KeyList(snap.usage)[i], ok |-> TRUE,
                      times |->
                          [j \in DOMAIN snap.usage[KeyList(snap.usage)[i]] |->
                              Scalar("num", snap.usage[KeyList(snap.usage)[i]][j])]]]))

\* A slip of the test: only ids written as strings pass.
IsSafeStringsOnly(r) ==
    /\ r.dict
    /\ r.channel_id.t \in {"digits", "super"}
    /\ r.message_id.t \in {"digits", "super"}

\* The test a record passes to get into safe_entries
is_safe(r) == r.dict /\ isdigit(r.channel_id) /\ isdigit(r.message_id)

\* safe_entries of one URL
safe_entries(entries) ==
    LET kept == SelectSeq(entries, is_safe)
    IN  [j \in DOMAIN kept |-> Rec(kept[j].channel_id.n, kept[j].message_id.n)]

\* State._load: whether the try block raises
load_raises(doc) ==
    \/ doc.kind = "garbage"
    \/ /\ doc.kind = "dict" /\ doc.posts.ok
       /\ \E i \in DOMAIN doc.posts.items :
            /\ doc.posts.items[i].ok
            /\ \E j \in DOMAIN doc.posts.items[i].entries :
                 LET r == doc.posts.items[i].entries[j]
                 IN  is_safe(r) /\ (int_raises(r.channel_id) \/ int_raises(r.message_id))

\* times of one usage key
load_times(times) ==
    LET kept == SelectSeq(times, LAMBDA t : ~float_raises(t))
    IN  [j \in DOMAIN kept |-> kept[j].n]

EmptyStore == [seen |-> {}, posts |-> <<>>, usage |-> <<>>]

\* State._load: the store after construction on the file
load(doc) ==
    IF doc.kind = "absent" \/ load_raises(doc) THEN EmptyStore
    ELSE [seen |->
              IF doc.kind = "list" \/ doc.seen.ok
              THEN {doc.seen.items[i] : i \in DOMAIN doc.seen.items}
              ELSE {},
          posts |->
              IF doc.kind = "dict" /\ doc.posts.ok
              THEN [i \in DOMAIN doc.posts.items |->
                       [url |-> doc.posts.items[i].url,
                        entries |-> IF doc.posts.items[i].ok
                                    THEN safe_entries(doc.posts.items[i].entries)
                                    ELSE <<>>]]
              ELSE <<>>,
          usage |->
              IF doc.kind = "dict" /\ doc.usage.ok
              THEN LET its == SelectSeq(doc.usage.items, LAMBDA e : e.ok)
                   IN  [k \in {its[i].key : i \in DOMAIN its} |->
                           load_times(its[CHOOSE i \in DOMAIN its : its[i].key = k].times)]
              ELSE <<>>]

\* The process ends and a new one constructs State on the file left behind.
Restart ==
    /\ seen' = load(dumps(disk)).seen
    /\ posts' = load(dumps(disk)).posts
    /\ usage' = load(dumps(disk)).usage
    /\ ret' = [op |-> "restart"]
    /\ UNCHANGED <<disk, now, admits, lim, win, nextId, bot>>

\* The key the calls of these runs are made on
DurableKey == <<"k", 1>>

\* A store loaded from its file, which can be written; the ledger of one key
\* may hold more timestamps than the limit now asked for.
InitDurable ==
    /\ seen = {"u1"}
    /\ posts = <<[url |-> "u1", entries |-> <<Rec(1, 1)>>]>>
    /\ usage \in {<<>>, [k \in Keys |-> IF k = DurableKey THEN <<0, 1, 1>> ELSE <<0>>]}
    /\ disk = Snapshot(seen, posts, usage)
    /\ now = 0
    /\ ret = NoRet
    /\ admits = [k \in AllKeys |-> <<>>]
    /\ lim \in 1..MaxLimit
    /\ win \in 1..MaxWindow
    /\ nextId = 2
    /\ BotIdle
    /\ writable

NextDurable ==
    \/ Tick
    \/ AllowCall(DurableKey)
    \/ Restart

SpecDurable == InitDurable /\ [][NextDurable]_vars

\* C11: a denied allow(key, ...) leaves the ledger entry of key as it was,
\* restricted to the timestamps younger than the window; every other key, the
\* seen set, the post index and the snapshot file are as before.
C11_DeniedFrame ==
    (ret.op = "allow" /\ ~ret.allowed) =>
        /\ UsageGet(usage, ret.key) =
               SelectSeq(UsageGet(ret.pre.usage, ret.key),
                         LAMBDA t : ret.at - t < win * Res)
        /\ \A k \in AllKeys \ {ret.key} :
               /\ k \in DOMAIN usage <=> k \in DOMAIN ret.pre.usage
               /\ UsageGet(usage, k) = UsageGet(ret.pre.usage, k)
        /\ seen = ret.pre.seen
        /\ posts = ret.pre.posts
        /\ disk = ret.predisk

\* A denial that pruned a timestamp, with another key in the ledger and a
\* snapshot on file.
C11_Witness ==
    /\ ret.op = "allow" /\ ~ret.allowed
    /\ Len(UsageGet(usage, ret.key)) < Len(UsageGet(ret.pre.usage, ret.key))
    /\ \E k \in Keys \ {ret.key} : UsageGet(usage, k) # <<>>
    /\ seen # {} /\ posts # <<>> /\ disk.exists

\* C12: while the file can be written, the snapshot holds the timestamp of an
\* admitted call when allow returns, and over restarts that reload the
\* snapshot no window holds more than `lim` admitted calls of a key.
C12_Durability ==
    writable =>
        /\ (ret.op = "allow" /\ ret.allowed) =>
               \E i \in DOMAIN UsageGet(load(dumps(disk)).usage, ret.key) :
                   UsageGet(load(dumps(disk)).usage, ret.key)[i] = ret.at
        /\ \A k \in Keys : \A a \in 0..MaxTime :
               Cardinality({i \in DOMAIN admits[k] :
                               a <= admits[k][i] /\ admits[k][i] < a + win * Res})
                   <= lim

\* The first call after a restart is denied on account of a call admitted
\* before the restart.
C12_Witness ==
    /\ writable
    /\ ret.op = "allow" /\ ret.booted /\ ~ret.allowed
    /\ admits[ret.key] # <<>>

----------------------------------------------------------------------------
\* State constructed on files of any content.

MaxRecs == 2        \* records of one URL, timestamps of one key, in a file

\* Sequences over S of length 0..n
SeqsUpTo(S, n) == UNION {[1..k -> S] : k \in 0..n}

\* Records a "posts" list can hold: well-formed ones with ids as numbers or
\* as digit strings, and malformed ones.
RawRecs ==
    {RawRec(TRUE, Scalar("int", 1), Scalar("int", 7)),
     RawRec(TRUE, Scalar("digits", 2), Scalar("digits", 8)),
     RawRec(TRUE, Scalar("super", 2), Scalar("int", 9)),
     RawRec(TRUE, Scalar("int", 1), Scalar("word", 0)),
     RawRec(TRUE, Scalar("none", 0), Scalar("int", 9)),
     RawRec(FALSE, Scalar("none", 0), Scalar("none", 0))}

\* Timestamps a "usage" list can hold
RawTimes == {Scalar("num", 0), Scalar("numstr", 1), Scalar("word", 0)}

\* The "posts" members a file can have: none (or not a dict), a dict whose
\* one URL has no list, a dict whose one URL has a list of records.
PostsMembers ==
    {Member(FALSE, <<>>),
     Member(TRUE, <<[url |-> "u1", ok |-> FALSE, entries |-> <<>>]>>)}
    \cup {Member(TRUE, <<[url |-> "u1", ok |-> TRUE, entries |-> es]>>) :
              es \in SeqsUpTo(RawRecs, MaxRecs)}

UsageMembers ==
    {Member(FALSE, <<>>),
     Member(TRUE, <<[key |-> DurableKey, ok |-> FALSE, times |-> <<>>]>>)}
    \cup {Member(TRUE, <<[key |-> DurableKey, ok |-> TRUE, times |-> ts]>>) :
              ts \in SeqsUpTo(RawTimes, MaxRecs)}

Documents ==
    {NoDoc,
     Doc("garbage", Member(FALSE, <<>>), Member(FALSE, <<>>), Member(FALSE, <<>>)),
     Doc("list", Member(TRUE, <<"u2">>), Member(FALSE, <<>>), Member(FALSE, <<>>))}
    \cup {Doc("dict", sn, ps, us) :
              sn \in {Member(FALSE, <<>>), Member(TRUE, <<"u1">>)},
              ps \in PostsMembers, us \in UsageMembers}

\* State(path) is constructed, once, on a file holding doc.
LoadFile(doc) ==
    /\ ret.op = "none"
    /\ seen' = load(doc).seen
    /\ posts' = load(doc).posts
    /\ usage' = load(doc).usage
    /\ ret' = [op |-> "load", file |-> doc]
    /\ UNCHANGED <<disk, now, admits, lim, win, nextId, bot>>

InitLoad ==
    /\ seen = {}
    /\ posts = <<>>
    /\ usage = <<>>
    /\ disk = NoFile
    /\ now = 0
    /\ ret = NoRet
    /\ admits = [k \in AllKeys |-> <<>>]
    /\ lim = 1
    /\ win = 1
    /\ nextId = 1
    /\ BotIdle
    /\ writable

NextLoad == \E doc \in Documents : LoadFile(doc)

SpecLoad == InitLoad /\ [][NextLoad]_vars

\* A record with both ids readable as non-negative integers
WellFormedRec(r) ==
    /\ r.dict
    /\ r.channel_id.t \in {"int", "digits"}
    /\ r.message_id.t \in {"int", "digits"}

\* C17 as claimed: a file that is not a JSON text loads to an empty store; in
\* a JSON dict, each URL's list loads to its well-formed records in order and
\* each key's list to the timestamps that are numbers, whatever malformed
\* records and timestamps stand beside them.
C17_MalformedLoad ==
    ret.op = "load" =>
        LET doc == ret.file
        IN  /\ doc.kind = "garbage" => (seen = {} /\ posts = <<>> /\ usage = <<>>)
            /\ (doc.kind = "dict" /\ doc.posts.ok) =>
                   \A i \in DOMAIN doc.posts.items :
                       doc.posts.items[i].ok =>
                           LET good == SelectSeq(doc.posts.items[i].entries, WellFormedRec)
                           IN  posts_for(posts, doc.posts.items[i].url) =
                                   [j \in DOMAIN good |->
                                       Rec(good[j].channel_id.n, good[j].message_id.n)]
            /\ (doc.kind = "dict" /\ doc.usage.ok) =>
                   \A i \in DOMAIN doc.usage.items :
                       doc.usage.items[i].ok =>
                           LET good == SelectSeq(doc.usage.items[i].times,
                                                 LAMBDA t : t.t \in {"num", "numstr"})
                           IN  UsageGet(usage, doc.usage.items[i].key) =
                                   [j \in DOMAIN good |-> good[j].n]

----------------------------------------------------------------------------
\* fetch_giveaway_links on a campaign-platform source.

MaxSegs == 2        \* path segments of an anchor
MaxAnchors == 3     \* anchors of a document

\* _GLEAM_BLOCKED_FIRST_SETS
Blocked ==
    {"blog", "features", "pricing", "help", "docs", "legal", "terms", "privacy",
     "jobs", "status", "login", "signup", "partners", "about", "contact", "press",
     "brand", "developer", "developers", "api", "company", "changelog", "site",
     "pages", "collections", "category", "categories", "tag", "tags", "gallery",
     "app", "tools", "guides", "customers", "success", "integrations", "faq", "",
     "templates"}

Hosts == {"gleam.io", "www.gleam.io", "GLEAM.IO", "wn.nr", "www.wn.nr",
          "example.com", "notgleam.io"}

Segs == {"comp", "abc123", "blog", "BLOG"}

\* str.lower() on the strings of the model
lower(x) ==
    CASE x = "GLEAM.IO" -> "gleam.io"
      [] x = "BLOG" -> "blog"
      [] OTHER -> x

\* _GLEAM_HOST.match / _GLEAM_SHORT_HOST.match on the lowered host
gleam_host(h) == h \in {"gleam.io", "www.gleam.io"}

short_host(h) == h \in {"wn.nr", "www.wn.nr"}

\* p.path.split("/") of the paths an anchor can have: "", "/", "/a",
\* "/a/", "/a/b", ...
Paths ==
    {<<"">>} \cup {<<"">> \o q \o t : q \in SeqsUpTo(Segs, MaxSegs),
                                     t \in {<<>>, <<"">>}}

\* parts: the segments that are not empty
parts_of(split) == SelectSeq(split, LAMBDA x : x # "")

\* The test of line 258 on the host and the split path of the resolved URL
accepts(host, split) ==
    \/ /\ gleam_host(lower(host))
       /\ \/ parts_of(split) = <<>>
          \/ lower(parts_of(split)[1]) \notin Blocked
    \/ short_host(lower(host))

\* An anchor after urljoin and _normalize_url: host and split path of norm,
\* the anchor text, and norm itself
Anchor(h, split, text, norm) == [host |-> h, split |-> split, text |-> text, norm |-> norm]

DocAnchors ==
    {Anchor("gleam.io", <<"", "comp", "abc123">>, "Win a car", "https://gleam.io/comp/abc123"),
     Anchor("gleam.io", <<"", "comp", "abc123">>, "Enter now", "https://gleam.io/comp/abc123"),
     Anchor("gleam.io", <<"", "blog", "post">>, "Blog", "https://gleam.io/blog/post"),
     Anchor("wn.nr", <<"", "xyz">>, "", "https://wn.nr/xyz"),
     Anchor("gleam.io", <<"", "">>, "Home", "https://gleam.io/")}

\* items: one per accepted anchor, in document order
items_of(doc) ==
    LET acc == SelectSeq(doc, LAMBDA a : accepts(a.host, a.split))
    IN  [i \in DOMAIN acc |->
            [title |-> IF acc[i].text # "" THEN acc[i].text ELSE acc[i].norm,
             url |-> acc[i].norm]]

\* A slip of the deduplication: the last occurrence of a URL is the one kept.
RECURSIVE DedupeKeepsLast(_, _)
DedupeKeepsLast(items, sn) ==
    IF items = <<>> THEN <<>>
    ELSE IF \E j \in 2..Len(items) : items[j].url = Head(items).url
         THEN DedupeKeepsLast(Tail(items), sn)
         ELSE <<Head(items)>> \o DedupeKeepsLast(Tail(items), sn)

\* "Deduplicate by URL": the loop over items with its seen set
RECURSIVE dedupe(_, _)
dedupe(items, sn) ==
    IF items = <<>> THEN <<>>
    ELSE IF Head(items).url # "" /\ Head(items).url \notin sn
         THEN <<Head(items)>> \o dedupe(Tail(items), sn \cup {Head(items).url})
         ELSE dedupe(Tail(items), sn)

\* fetch_giveaway_links on the document
fetch_giveaway_links(doc) == dedupe(items_of(doc), {})

\* The filter is applied to one anchor.
Candidate(h, split) ==
    /\ ret.op = "none"
    /\ ret' = [op |-> "accepts", host |-> h, split |-> split,
               out |-> accepts(h, split)]
    /\ UNCHANGED <<store, now, admits, lim, win, nextId, bot>>

\* One extraction call
Fetch(doc) ==
    /\ ret.op = "none"
    /\ ret' = [op |-> "fetch", doc |-> doc, out |-> fetch_giveaway_links(doc)]
    /\ UNCHANGED <<store, now, admits, lim, win, nextId, bot>>

InitExtract == InitLoad

NextExtract ==
    \/ \E h \in Hosts, split \in Paths : Candidate(h, split)
    \/ \E doc \in SeqsUpTo(DocAnchors, MaxAnchors) : Fetch(doc)

SpecExtract == InitExtract /\ [][NextExtract]_vars

\* The first path segment of a split path ("" if the path has none)
FirstSegment(split) == IF Len(split) >= 2 THEN split[2] ELSE ""

\* C18 as claimed: an anchor on the platform host is a candidate iff its first
\* path segment, the empty one included, is not in the block-list; an anchor
\* on the shortener host is a candidate.
C18_CampaignFilter ==
    ret.op = "accepts" =>
        /\ gleam_host(lower(ret.host)) =>
               (ret.out <=> lower(FirstSegment(ret.split)) \notin Blocked)
        /\ short_host(lower(ret.host)) => ret.out

\* The index of the first candidate with URL u
FirstAt(cands, u) ==
    CHOOSE i \in DOMAIN cands :
        cands[i].url = u /\ \A j \in 1..(i - 1) : cands[j].url # u

\* C19: the items one extraction call returns have pairwise different URLs,
\* cover the URLs of the anchors that passed the filter, stand in the order in
\* which their URLs first occur in the document, and carry the title of that
\* first occurrence.
C19_ExtractionOutput ==
    ret.op = "fetch" =>
        LET cands == items_of(ret.doc)
            out == ret.out
        IN  /\ \A i, j \in DOMAIN out : out[i].url = out[j].url => i = j
            /\ {out[i].url : i \in DOMAIN out} = {cands[i].url : i \in DOMAIN cands}
            /\ \A i, j \in DOMAIN out :
                   i < j => FirstAt(cands, out[i].url) < FirstAt(cands, out[j].url)
            /\ \A i \in DOMAIN out : out[i] = cands[FirstAt(cands, out[i].url)]

\* A document with the same campaign under two titles, a shortener link
\* between them and a blog link: two items come back, the campaign first and
\* under its first title.
C19_Witness ==
    /\ ret.op = "fetch"
    /\ Len(ret.doc) = 3 /\ Len(ret.out) = 2
    /\ ret.doc[1].norm = ret.doc[3].norm /\ ret.doc[1].text # ret.doc[3].text
    /\ ret.out[1].title = ret.doc[1].text
    /\ ret.out[2].title = ret.out[2].url

----------------------------------------------------------------------------
\* The registry commands, the other authors and the clock.

\* The registry entry of guild g becomes c (0: none); a change is logged.
ApplyChannel(g, c) ==
    /\ get_channel(channels, g) # c => Len(regChanges) < MaxRegChanges
    /\ channels' = set_channel(channels, g, c)
    /\ regChanges' = IF get_channel(channels, g) # c
                     THEN Append(regChanges, <<g, now>>)
                     ELSE regChanges

\* /setchannel in the text channel of guild g
setchannel(g) ==
    /\ allow(SetChannelKey(g), SetChannelLimit, Day)
    /\ IF allow_result(SetChannelKey(g), SetChannelLimit, Day).allowed
       THEN ApplyChannel(g, ChanOf(g))
       ELSE UNCHANGED <<channels, regChanges>>
    /\ UNCHANGED <<seen, posts, now, ret, lim, win, nextId,
                   msgs, scan, cleanup, writable, sources>>

\* /start in the text channel of guild g
start(g) ==
    /\ ApplyChannel(g, ChanOf(g))
    /\ UNCHANGED <<store, now, ret, admits, lim, win, nextId,
                   msgs, scan, cleanup, writable, sources>>

\* /stop in the text channel of guild g
stop(g) ==
    /\ get_channel(channels, g) = ChanOf(g)
    /\ ApplyChannel(g, 0)
    /\ UNCHANGED <<store, now, ret, admits, lim, win, nextId,
                   msgs, scan, cleanup, writable, sources>>

\* Half a day passes.
AdvanceClock ==
    /\ now < MaxHalfDays * HalfDayTicks
    /\ now' = now + HalfDayTicks
    /\ UNCHANGED <<store, ret, admits, lim, win, nextId, bot>>

----------------------------------------------------------------------------
\* _cleanup_loop.

EndCleanup(cl, how) == cleanup' = [cl EXCEPT !.pc = how]

\* The URL loop takes up the next URL, or the cycle is over.
NextUrl(cl) ==
    IF Tail(cl.urls) # <<>>
    THEN cleanup' = [cl EXCEPT !.pc = "check", !.urls = Tail(@), !.recs = <<>>]
    ELSE EndCleanup(cl, "done")

\* The record loop of an expired URL: records of inactive channels are passed
\* over; after the last record the URL is removed and the store saved.
RECURSIVE SkipInactive(_, _)
SkipInactive(recs, active) ==
    IF recs # <<>> /\ ( \/ Head(recs).channel_id = 0
                        \/ Head(recs).message_id = 0
                        \/ Head(recs).channel_id \notin active )
    THEN SkipInactive(Tail(recs), active)
    ELSE recs

ProcessRecs(cl, recs) ==
    LET rest == SkipInactive(recs, cl.active)
        url == Head(cl.urls)
    IN  IF rest # <<>>
        THEN /\ cleanup' = [cl EXCEPT !.pc = "resolve", !.recs = rest]
             /\ UNCHANGED <<seen, posts, disk>>
        ELSE /\ seen' = seen \ {url}
             /\ posts' = remove_url(posts, url)
             /\ disk' = save(seen', posts', usage)
             /\ NextUrl(cl)

\* The 24h timer fires; without an active channel or without a posted URL
\* the cycle returns at once.
StartCleanup ==
    /\ cleanup.pc = "idle"
    /\ cleanup' =
           IF active_channels(channels) = {} \/ all_urls_with_posts(posts) = <<>>
           THEN [IdleCleanup EXCEPT !.pc = "done",
                                    !.pre = [seen |-> seen, posts |-> posts]]
           ELSE [IdleCleanup EXCEPT !.pc = "check",
                                    !.urls = all_urls_with_posts(posts),
                                    !.active = active_channels(channels),
                                    !.pre = [seen |-> seen, posts |-> posts]]
    /\ UNCHANGED <<store, now, ret, admits, lim, win, nextId,
                   channels, msgs, scan, regChanges, writable, sources>>

\* What the request of is_expired can meet: a network error, a status of 400
\* or more, a page that says the giveaway has ended, a page that does not.
Probes == {"neterror", "gone", "ended", "live"}

\* A slip of is_expired: a URL that cannot be reached counts as expired.
ExpiredOnError(probe) == probe \in {"neterror", "gone", "ended"}

\* is_expired
is_expired(probe) == probe \in {"gone", "ended"}

\* is_expired(url) has returned
CheckExpiry ==
    /\ cleanup.pc = "check"
    /\ \E probe \in Probes :
        LET cl == IF probe \in {"neterror", "live"}
                  THEN [cleanup EXCEPT !.spared = @ \cup {Head(cleanup.urls)}]
                  ELSE cleanup
        IN  IF is_expired(probe)
            THEN ProcessRecs([cl EXCEPT !.expired = @ \cup {Head(cleanup.urls)}],
                             posts_for(posts, Head(cleanup.urls)))
            ELSE NextUrl(cl) /\ UNCHANGED <<seen, posts, disk>>
    /\ UNCHANGED <<usage, now, ret, admits, lim, win, nextId,
                   channels, msgs, scan, regChanges, writable, sources>>

\* get_channel(...) or fetch_channel(...), outside any try
CleanupResolve ==
    /\ cleanup.pc = "resolve"
    /\ \E out \in {"ok", "raise", "nontext"} :
        CASE out = "ok" ->
                 /\ cleanup' = [cleanup EXCEPT !.pc = "delete"]
                 /\ UNCHANGED <<seen, posts, disk>>
          [] out = "nontext" -> ProcessRecs(cleanup, Tail(cleanup.recs))
          [] out = "raise" ->
                 /\ EndCleanup(cleanup, "aborted")
                 /\ UNCHANGED <<seen, posts, disk>>
    /\ UNCHANGED <<usage, now, ret, admits, lim, win, nextId,
                   channels, msgs, scan, regChanges, writable, sources>>

\* fetch_message and delete, inside the try
CleanupDelete ==
    /\ cleanup.pc = "delete"
    /\ LET rec == Head(cleanup.recs)
           there == \E i \in DOMAIN msgs[rec.channel_id] :
                        msgs[rec.channel_id][i].id = rec.message_id
       IN  \E ok \in {FALSE, there} :
               msgs' = IF ok
                       THEN [msgs EXCEPT ![rec.channel_id] =
                                SelectSeq(@, LAMBDA m : m.id # rec.message_id)]
                       ELSE msgs
    /\ ProcessRecs([cleanup EXCEPT !.tried = @ \cup {Head(cleanup.recs).message_id}],
                   Tail(cleanup.recs))
    /\ UNCHANGED <<usage, now, ret, admits, lim, win, nextId,
                   channels, scan, regChanges, writable, sources>>

\* The cleanup task has returned or raised.
CleanupReturn ==
    /\ cleanup.pc \in {"done", "aborted"}
    /\ cleanup' = IdleCleanup
    /\ UNCHANGED <<store, now, ret, admits, lim, win, nextId,
                   channels, msgs, scan, regChanges, writable, sources>>

----------------------------------------------------------------------------
\* The bot.

InitBot ==
    /\ seen = URLs
    /\ posts = <<>>
    /\ usage = <<>>
    /\ disk = Snapshot(URLs, <<>>, <<>>)
    /\ now = 0
    /\ ret = NoRet
    /\ admits = [k \in AllKeys |-> <<>>]
    /\ lim = 1
    /\ win = 1
    /\ nextId = 1
    /\ BotIdle

ScansIdle == \A p \in Procs : scan[p].pc = "idle"

AllIdle == ScansIdle /\ cleanup.pc = "idle"

ScanStep(p) ==
    \/ FetchSource(p)
    \/ Resolve(p)
    \/ ReadHistory(p)
    \/ SendOk(p)
    \/ SendFail(p)
    \/ Sleep(p)
    \/ Return(p)

\* Scan cycles one after the other, no cleanup.
NextDeliver ==
    \/ ScansIdle /\ StartLoop
    \/ ScansIdle /\ \E c \in Channels : on_message(c)
    \/ ScansIdle /\ \E c \in Channels : scan_now(c)
    \/ \E p \in Procs : ScanStep(p)

\* The registries ChannelsConfig._load can find in its file.
Registries ==
    {<<[guild |-> 1, channel |-> 1]>>,
     <<[guild |-> 1, channel |-> 1], [guild |-> 2, channel |-> 2]>>}

\* What the channels hold when the bot starts: nothing, or a two-line message
\* of another author in channel 1.
Histories ==
    {[c \in Channels |-> <<>>],
     [c \in Channels |-> IF c = 1 THEN <<Msg(0, FALSE, "u1")>> ELSE <<>>]}

InitDeliver ==
    /\ seen = URLs
    /\ posts = <<>>
    /\ usage = <<>>
    /\ writable = TRUE
    /\ disk = Snapshot(URLs, <<>>, <<>>)
    /\ now = 0
    /\ ret = NoRet
    /\ admits = [k \in AllKeys |-> <<>>]
    /\ lim = 1
    /\ win = 1
    /\ nextId = 1
    /\ channels \in Registries
    /\ msgs \in Histories
    /\ scan = [p \in Handlers |-> IdleScan]
    /\ cleanup = IdleCleanup
    /\ regChanges = <<>>
    /\ sources = Sources

SpecDeliver == InitDeliver /\ [][NextDeliver]_vars

\* Scan cycles and cleanup cycles one after the other.
NextSeq ==
    \/ AllIdle /\ StartLoop
    \/ AllIdle /\ StartCleanup
    \/ ScanStep("loop")
    \/ CheckExpiry
    \/ CleanupResolve
    \/ CleanupDelete
    \/ CleanupReturn

InitSeq == InitDeliver

SpecSeq == InitSeq /\ [][NextSeq]_vars

\* The registry commands on their own.
NextReg ==
    \/ \E g \in Guilds : setchannel(g)
    \/ \E g \in Guilds : start(g)
    \/ \E g \in Guilds : stop(g)
    \/ AdvanceClock

SpecReg == InitBot /\ [][NextReg]_vars

----------------------------------------------------------------------------
\* The two 24h loops over a store that holds deliveries already.

\* The registries of these runs: none, one guild, two guilds
TimerRegistries == {<<>>} \cup Registries

\* u1 was delivered to channels 1 and 2, u2 to channel 1; only u1 is in the
\* seen set (the bot itself never adds to it).
InitPosted ==
    /\ seen = {"u1"}
    /\ posts = <<[url |-> "u1", entries |-> <<Rec(1, 1), Rec(2, 2)>>],
                 [url |-> "u2", entries |-> <<Rec(1, 3)>>]>>
    /\ usage = <<>>
    /\ writable = TRUE
    /\ disk = Snapshot(seen, posts, usage)
    /\ now = 0
    /\ ret = NoRet
    /\ admits = [k \in AllKeys |-> <<>>]
    /\ lim = 1
    /\ win = 1
    /\ nextId = MaxMsgId
    /\ msgs = [c \in Channels |->
                  IF c = 1 THEN <<Msg(1, TRUE, "u1"), Msg(3, TRUE, "u2")>>
                  ELSE <<Msg(2, TRUE, "u1")>>]
    /\ scan = [p \in Handlers |-> IdleScan]
    /\ cleanup = IdleCleanup
    /\ regChanges = <<>>

InitCleanup ==
    /\ InitPosted
    /\ channels \in TimerRegistries
    /\ sources = Sources

\* Cleanup cycles, nothing else.
NextCleanup ==
    \/ StartCleanup
    \/ CheckExpiry
    \/ CleanupResolve
    \/ CleanupDelete
    \/ CleanupReturn

SpecCleanup == InitCleanup /\ [][NextCleanup]_vars

\* C13: in a cleanup cycle, a URL whose probe found it live or failed on the
\* network is in the seen set iff it was, has the records it had, and none of
\* its messages was fetched for deletion.
C13_Conservative ==
    cleanup.pc # "idle" =>
        \A u \in cleanup.spared :
            /\ u \in seen <=> u \in cleanup.pre.seen
            /\ PostsHas(posts, u)
            /\ posts_for(posts, u) = posts_for(cleanup.pre.posts, u)
            /\ \A i \in DOMAIN posts_for(posts, u) :
                   posts_for(posts, u)[i].message_id \notin cleanup.tried

\* A cycle that spared one URL and purged another, one of whose messages it
\* tried to delete.
C13_Witness ==
    /\ cleanup.pc = "done"
    /\ cleanup.spared # {} /\ cleanup.expired # {} /\ cleanup.tried # {}
    /\ \A u \in cleanup.expired : ~PostsHas(posts, u)

\* No scan and no cleanup cycle is under way.
Calm ==
    /\ scan["loop"].pc \in {"idle", "done", "aborted"}
    /\ cleanup.pc \in {"idle", "done", "aborted"}

InitTimers ==
    /\ InitPosted
    /\ channels \in TimerRegistries
    /\ sources \in {<<>>, Sources}

\* The two loops, one cycle at a time.
NextTimers ==
    \/ Calm /\ StartLoop
    \/ Calm /\ StartCleanup
    \/ ScanStep("loop")
    \/ CheckExpiry
    \/ CleanupResolve
    \/ CleanupDelete
    \/ CleanupReturn

SpecTimers == InitTimers /\ [][NextTimers]_vars

\* C16: with no active channel, or with no source, a cycle of the periodic
\* scan is over as it begins, with nothing fetched or handed to delivery and
\* the store and the channels untouched; with no active channel a cleanup
\* cycle is over as it begins, with no URL probed, no deletion tried and the
\* store and the channels untouched.
C16_IdleLoops ==
    [][ /\ ( /\ scan["loop"].pc = "idle" /\ scan'["loop"].pc # "idle"
             /\ (active_channels(channels) = {} \/ sources = <<>>) )
            => /\ scan'["loop"].pc = "done"
               /\ scan'["loop"].got = <<>> /\ ~scan'["loop"].handed
               /\ UNCHANGED <<seen, posts, usage, disk, msgs, nextId>>
        /\ ( /\ cleanup.pc = "idle" /\ cleanup'.pc # "idle"
             /\ active_channels(channels) = {} )
            => /\ cleanup'.pc = "done"
               /\ cleanup'.expired = {} /\ cleanup'.spared = {}
               /\ cleanup'.tried = {}
               /\ UNCHANGED <<seen, posts, usage, disk, msgs, nextId>>
      ]_vars

\* With an empty registry and a store that holds deliveries, a scan cycle and
\* a cleanup cycle have both come and gone.
C16_Witness ==
    /\ channels = <<>> /\ sources # <<>>
    /\ posts # <<>>
    /\ scan["loop"].pc = "done" /\ scan["loop"].got = <<>>
    /\ cleanup.pc = "done" /\ cleanup.tried = {}

----------------------------------------------------------------------------
\* The /preview command.

PreviewLimit == 1       \* /preview: once per window and channel
PreviewMax == 3         \* targets[:3]

\* A sources.json with more sources than a preview reads
ManySources == <<"s1", "s2", "s3", "s4">>

Min(a, b) == IF a < b THEN a ELSE b

\* A slip of preview: every target is fetched.
PreviewAllTargets(given) == IF given THEN <<"url">> ELSE sources

\* targets[:3]; given: the command came with a url
preview_targets(given) ==
    LET targets == IF given THEN <<"url">> ELSE sources
    IN  SubSeq(targets, 1, Min(PreviewMax, Len(targets)))

\* /preview in channel c
preview(c, given) ==
    /\ scan["preview"].pc = "idle"
    /\ allow(PreviewKey(c), PreviewLimit, Day)
    /\ scan' = IF allow_result(PreviewKey(c), PreviewLimit, Day).allowed
               THEN [scan EXCEPT !["preview"] =
                        [IdleScan EXCEPT !.pc = IF preview_targets(given) = <<>>
                                                THEN "done" ELSE "fetch",
                                         !.dest = c, !.admitted = TRUE,
                                         !.targets = preview_targets(given)]]
               ELSE scan
    /\ UNCHANGED <<seen, posts, now, ret, lim, win, nextId,
                   channels, msgs, cleanup, regChanges, writable, sources>>

\* One target is fetched; an error becomes a line of the reply.
PreviewFetch ==
    /\ scan["preview"].pc = "fetch"
    /\ \E out \in FetchOutcomes :
        LET sc == [scan["preview"] EXCEPT !.got = Append(@, out),
                                          !.failed = @ \/ ~out.ok]
        IN  scan' = [scan EXCEPT !["preview"] =
                        [sc EXCEPT !.pc = IF Len(sc.got) < Len(sc.targets)
                                          THEN "fetch" ELSE "done"]]
    /\ UNCHANGED <<store, now, ret, admits, lim, win, nextId,
                   channels, msgs, cleanup, regChanges, writable, sources>>

InitPreview ==
    /\ InitPosted
    /\ channels \in Registries
    /\ sources \in {<<>>, Sources, ManySources}

NextPreview ==
    \/ \E c \in Channels, given \in BOOLEAN : preview(c, given)
    \/ PreviewFetch
    \/ Return("preview")
    \/ AdvanceClock

SpecPreview == InitPreview /\ [][NextPreview]_vars

\* C14: a preview fetches at most 3 sources and runs only when admitted; no
\* 24h window holds two admitted previews of one channel; and a step of the
\* preview command leaves the seen set, the post index and the channels as
\* they are and changes the ledger of no key but its own.
C14_PreviewDryRun ==
    /\ [](/\ Len(scan["preview"].got) <= 3
          /\ scan["preview"].pc # "idle" => scan["preview"].admitted
          /\ \A c \in Channels : \A k \in DOMAIN admits[PreviewKey(c)] :
                 Cardinality({i \in DOMAIN admits[PreviewKey(c)] :
                     /\ admits[PreviewKey(c)][k] <= admits[PreviewKey(c)][i]
                     /\ admits[PreviewKey(c)][i] < admits[PreviewKey(c)][k] + Day * Res})
                     <= 1)
    /\ [][(usage' # usage \/ scan'["preview"] # scan["preview"]) =>
              /\ UNCHANGED <<seen, posts, msgs, nextId>>
              /\ \E c \in Channels : \A k \in AllKeys \ {PreviewKey(c)} :
                     UsageGet(usage', k) = UsageGet(usage, k)]_vars

\* A preview over four configured sources has fetched three of them and is
\* over; it is the second one admitted in its channel, a day after the first.
C14_Witness ==
    /\ scan["preview"].pc = "done"
    /\ Len(sources) = 4 /\ Len(scan["preview"].got) = 3
    /\ Len(admits[PreviewKey(scan["preview"].dest)]) = 2
    /\ posts # <<>>

----------------------------------------------------------------------------
\* The /clear command.

SweepLimit == 500       \* ch.history(limit=500)

\* to_delete: the message ids of the records of channel d, in index order
RECURSIVE to_delete(_, _)
to_delete(p, d) ==
    IF p = <<>> THEN <<>>
    ELSE LET recs == SelectSeq(Head(p).entries,
                               LAMBDA r : r.channel_id = d /\ r.message_id # 0)
         IN  [j \in DOMAIN recs |-> recs[j].message_id] \o to_delete(Tail(p), d)

\* The ids of the bot's messages among the last 500 of a channel, newest first
sweep_list(ms) ==
    LET recent == IF Len(ms) <= SweepLimit THEN ms
                  ELSE SubSeq(ms, Len(ms) - SweepLimit + 1, Len(ms))
        mine == SelectSeq(recent, LAMBDA x : x.bot)
    IN  [j \in DOMAIN mine |-> mine[Len(mine) + 1 - j].id]

\* Channel d without message id
Without(d, id) == [msgs EXCEPT ![d] = SelectSeq(@, LAMBDA x : x.id # id)]

\* "Prune state mapping for this channel": the command is over.
ClearFinish(sc) ==
    /\ posts' = remove_channel_posts(posts, sc.dest)
    /\ disk' = IF remove_channel_changed(posts, sc.dest)
               THEN save(seen, posts', usage) ELSE disk
    /\ scan' = [scan EXCEPT !["clear"] = [sc EXCEPT !.pc = "done", !.to_delete = <<>>]]

\* /clear in guild g
clear_cmd(g) ==
    /\ scan["clear"].pc = "idle"
    /\ scan' = [scan EXCEPT !["clear"] =
                   IF get_channel(channels, g) = 0
                   THEN [IdleScan EXCEPT !.pc = "aborted"]
                   ELSE [IdleScan EXCEPT !.pc = "resolve",
                                         !.dest = get_channel(channels, g)]]
    /\ UNCHANGED <<store, now, ret, admits, lim, win, nextId,
                   channels, msgs, cleanup, regChanges, writable, sources>>

\* get_channel(...) or fetch_channel(...); then to_delete is drawn up
ClearResolve ==
    /\ scan["clear"].pc = "resolve"
    /\ \E out \in {"ok", "raise", "nontext"} :
        LET sc == scan["clear"]
        IN  scan' = [scan EXCEPT !["clear"] =
                        IF out # "ok" THEN [sc EXCEPT !.pc = "aborted"]
                        ELSE IF to_delete(posts, sc.dest) = <<>>
                        THEN [sc EXCEPT !.pc = "history"]
                        ELSE [sc EXCEPT !.pc = "delete",
                                        !.to_delete = to_delete(posts, sc.dest)]]
    /\ UNCHANGED <<store, now, ret, admits, lim, win, nextId,
                   channels, msgs, cleanup, regChanges, writable, sources>>

\* One id is worked off: fetch_message and delete, a failure is passed over.
ClearOne(next) ==
    LET sc == scan["clear"]
        id == Head(sc.to_delete)
        there == \E i \in DOMAIN msgs[sc.dest] : msgs[sc.dest][i].id = id
    IN  \E ok \in {FALSE, there} :
            /\ msgs' = IF ok THEN Without(sc.dest, id) ELSE msgs
            /\ LET sc2 == [sc EXCEPT !.to_delete = Tail(@), !.failed = @ \/ ~ok]
               IN  IF sc2.to_delete # <<>>
                   THEN /\ scan' = [scan EXCEPT !["clear"] = sc2]
                        /\ UNCHANGED <<posts, disk>>
                   ELSE IF next = "history"
                   THEN /\ scan' = [scan EXCEPT !["clear"] = [sc2 EXCEPT !.pc = "history"]]
                        /\ UNCHANGED <<posts, disk>>
                   ELSE ClearFinish(sc2)

\* The recorded messages are deleted one by one
ClearDelete ==
    /\ scan["clear"].pc = "delete"
    /\ ClearOne("history")
    /\ UNCHANGED <<seen, usage, now, ret, admits, lim, win, nextId,
                   channels, cleanup, regChanges, writable, sources>>

\* The sweep reads the history; a raise ends the sweep
ClearHistory ==
    /\ scan["clear"].pc = "history"
    /\ \E ok \in BOOLEAN :
        LET sc == scan["clear"]
            ids == IF ok THEN sweep_list(msgs[sc.dest]) ELSE <<>>
        IN  IF ids = <<>>
            THEN ClearFinish([sc EXCEPT !.failed = @ \/ ~ok])
            ELSE /\ scan' = [scan EXCEPT !["clear"] =
                                [sc EXCEPT !.pc = "sweep", !.to_delete = ids]]
                 /\ UNCHANGED <<posts, disk>>
    /\ UNCHANGED <<seen, usage, now, ret, admits, lim, win, nextId,
                   channels, msgs, cleanup, regChanges, writable, sources>>

\* The sweep deletes the bot's messages one by one
ClearSweep ==
    /\ scan["clear"].pc = "sweep"
    /\ ClearOne("finish")
    /\ UNCHANGED <<seen, usage, now, ret, admits, lim, win, nextId,
                   channels, cleanup, regChanges, writable, sources>>

ClearStep ==
    \/ ClearResolve
    \/ ClearDelete
    \/ ClearHistory
    \/ ClearSweep
    \/ Return("clear")

InitClear ==
    /\ InitPosted
    /\ channels \in TimerRegistries
    /\ sources = Sources

NextClear ==
    \/ \E g \in Guilds : clear_cmd(g)
    \/ ClearStep

SpecClear == InitClear /\ [][NextClear]_vars

\* C15: the step that completes a bulk clear for destination d leaves no
\* record of d in the post index and leaves the records of every other
\* destination as they were, whether or not the deletions succeeded; no other
\* step of the command changes the post index.
C15_BulkClear ==
    [][scan'["clear"] # scan["clear"] =>
          IF scan'["clear"].pc = "done"
          THEN \A u \in URLs :
                   /\ ~has_post_in_channel(posts', u, scan'["clear"].dest)
                   /\ posts_for(posts', u) =
                          SelectSeq(posts_for(posts, u),
                                    LAMBDA r : r.channel_id # scan'["clear"].dest)
          ELSE posts' = posts]_vars

\* A clear of channel 1 is over: a message it could not delete is still
\* there, no record names channel 1, and u1 has its record of channel 2.
C15_Witness ==
    /\ scan["clear"].pc = "done" /\ scan["clear"].dest = 1
    /\ scan["clear"].failed
    /\ \E i \in DOMAIN msgs[1] : msgs[1][i].bot
    /\ \A u \in URLs : Records(u, 1) = {}
    /\ Records("u1", 2) # {}

----------------------------------------------------------------------------
\* All handlers at once: the periodic scan, /scan, cleanup and /clear
\* interleave at their awaits. Both scans overlap one another and whichever of
\* cleanup and /clear is running; a cleanup cycle and a /clear are not started
\* while the other is under way.

\* One guild, one source; u1 has been delivered to channel 1, and two more
\* messages can be sent.
InitRace ==
    /\ seen = {}
    /\ posts = <<[url |-> "u1", entries |-> <<Rec(1, 1)>>]>>
    /\ usage = <<>>
    /\ writable = TRUE
    /\ disk = Snapshot(seen, posts, usage)
    /\ now = 0
    /\ ret = NoRet
    /\ admits = [k \in AllKeys |-> <<>>]
    /\ lim = 1
    /\ win = 1
    /\ nextId = MaxMsgId - 1
    /\ channels = <<[guild |-> 1, channel |-> 1]>>
    /\ msgs = [c \in Channels |-> IF c = 1 THEN <<Msg(1, TRUE, "u1")>> ELSE <<>>]
    /\ scan = [p \in Handlers |-> IdleScan]
    /\ cleanup = IdleCleanup
    /\ regChanges = <<>>
    /\ sources = <<"s1">>

NextRace ==
    \/ StartLoop
    \/ scan_now(1)
    \/ \E p \in {"loop", "cmd"} : ScanStep(p)
    \/ StartCleanup /\ scan["clear"].pc = "idle"
    \/ CheckExpiry
    \/ CleanupResolve
    \/ CleanupDelete
    \/ CleanupReturn
    \/ clear_cmd(1) /\ cleanup.pc = "idle"
    \/ ClearStep

SpecRace == InitRace /\ [][NextRace]_vars

\* C20: a record of (url, destination) is added to the post index while
\* another one is in it only by a delivery pass that found the URL not to be
\* a duplicate before another pass recorded its delivery of the same URL to
\* the same destination; cleanup and /clear never add a record.
C20_OnlyOverlapDuplicates ==
    [][\A u \in URLs, d \in Channels :
           LET before == {i \in DOMAIN posts_for(posts, u) :
                              posts_for(posts, u)[i].channel_id = d}
               after == {i \in DOMAIN posts_for(posts', u) :
                             posts_for(posts', u)[i].channel_id = d}
           IN  (before # {} /\ Cardinality(after) > Cardinality(before)) =>
                   \E p \in Procs :
                       /\ scan[p].pc = "send" /\ scan'[p].pc = "sleep"
                       /\ Head(scan[p].chans) = d
                       /\ scan[p].batch[scan[p].item] = u
                       /\ scan[p].raced]_vars

\* Two records of one (url, destination) pair, the second just added by a
\* pass that another pass overlapped, while a cleanup cycle or a /clear is
\* under way.
C20_Witness ==
    /\ \E p \in Procs :
           /\ scan[p].pc = "sleep" /\ scan[p].raced
           /\ Cardinality(Records(scan[p].batch[scan[p].item], Head(scan[p].chans))) = 2
    /\ \/ cleanup.pc \notin {"idle", "done", "aborted"}
       \/ scan["clear"].pc \notin {"idle", "done", "aborted"}

----------------------------------------------------------------------------
\* The claims about scan cycles.

Ended(p) == scan[p].pc \in {"done", "aborted"}

RECURSIVE Concat(_)
Concat(pages) == IF pages = <<>> THEN <<>> ELSE Head(pages) \o Concat(Tail(pages))

\* C1: over scan cycles that do not overlap, every (url, destination) pair has
\* at most one message sent and at most one record, and a record for each
\* message sent.
C1_Idempotence ==
    \A u \in URLs, d \in Channels :
        /\ Cardinality(Records(u, d)) <= 1
        /\ Cardinality(Delivered(u, d)) = Cardinality(Records(u, d))

\* A cycle whose batch held the same URL twice has ended without a failure,
\* and the URL has its one record in a destination served.
C1_Witness ==
    \E p \in Procs :
        /\ scan[p].pc = "done" /\ ~scan[p].failed
        /\ Len(scan[p].batch) = 2 /\ scan[p].batch[1] = scan[p].batch[2]
        /\ \E i \in DOMAIN scan[p].snap :
               Cardinality(Records(scan[p].batch[1], scan[p].snap[i])) = 1

\* C4 as claimed: when a cleanup cycle is over, every URL it found expired is
\* gone from the post index and from the seen set.
C4_ExpiredPurged ==
    cleanup.pc \in {"done", "aborted"} =>
        \A u \in cleanup.expired : ~PostsHas(posts, u) /\ u \notin seen

\* C5 as claimed: a scan cycle started by an external request (on_message,
\* /scan) has been admitted by allow().
C5_ManualScansAdmitted ==
    \A p \in {"msg", "cmd"} : scan[p].pc # "idle" => scan[p].admitted

\* C6 as claimed: no window of 24h holds more than 2 applied changes of one
\* guild's registry entry.
C6_RegistryChangesLimited ==
    \A g \in Guilds : \A k \in DOMAIN regChanges :
        Cardinality({i \in DOMAIN regChanges :
                        /\ regChanges[i][1] = g
                        /\ regChanges[k][2] <= regChanges[i][2]
                        /\ regChanges[i][2] < regChanges[k][2] + Day * Res})
            <= SetChannelLimit

\* C7 as claimed: in a cycle that is over, every source was fetched, the
\* batch holds the candidates of every source that did not fail, and a batch
\* that is not empty was handed to delivery.
C7_SourceIsolation ==
    \A p \in Procs :
        Ended(p) =>
            /\ Len(scan[p].got) = Len(Sources)
            /\ scan[p].batch = Concat([i \in DOMAIN scan[p].got |-> scan[p].got[i].items])
            /\ scan[p].batch # <<>> => scan[p].handed

\* C8 as claimed: a delivery that is over has left no destination after the
\* one it failed at unserved.
C8_DeliveryIsolation ==
    \A p \in Procs :
        (Ended(p) /\ scan[p].handed) =>
            (scan[p].chans = <<>> \/ Tail(scan[p].chans) = <<>>)

Carries(c, m, u) ==
    \E i \in DOMAIN msgs[c] : msgs[c][i] = Msg(m, TRUE, u)

\* C21: within one delivery pass to one destination the items are sent one at
\* a time in the order of the batch: a send is taken up only for an item
\* later than the one sent before, no item between them that is not a
\* duplicate is passed over, and when a send has returned the record of its
\* message is in the post index before anything else of the pass happens.
C21_InOrderDelivery ==
    /\ [](\A p \in Procs :
            scan[p].pc = "sleep" =>
                \E i \in Records(scan[p].batch[scan[p].item], Head(scan[p].chans)) :
                    Carries(Head(scan[p].chans),
                            posts_for(posts, scan[p].batch[scan[p].item])[i].message_id,
                            scan[p].batch[scan[p].item]))
    /\ [][\A p \in Procs :
            (/\ scan[p].pc \in {"history", "send", "sleep"}
             /\ scan'[p].pc = "send"
             /\ scan'[p] # scan[p]) =>
                /\ scan'[p].chans = scan[p].chans
                /\ scan'[p].batch = scan[p].batch
                /\ scan'[p].item > scan[p].item
                /\ \A k \in (scan[p].item + 1)..(scan'[p].item - 1) :
                       is_duplicate(scan[p].batch[k], scan'[p].links, posts',
                                    Head(scan[p].chans))]_vars

\* A pass has sent its first and then its second item, two different URLs,
\* to one channel, and both are recorded.
C21_Witness ==
    \E p \in Procs :
        /\ scan[p].pc = "sleep" /\ scan[p].item = 2
        /\ scan[p].batch[1] # scan[p].batch[2]
        /\ \E i \in Records(scan[p].batch[1], Head(scan[p].chans)),
              j \in Records(scan[p].batch[2], Head(scan[p].chans)) :
               /\ posts_for(posts, scan[p].batch[1])[i].message_id
                      < posts_for(posts, scan[p].batch[2])[j].message_id
               /\ Carries(Head(scan[p].chans),
                          posts_for(posts, scan[p].batch[1])[i].message_id,
                          scan[p].batch[1])

\* C22: a delivery pass changes the post index only in the step in which a
\* send returns a message, and then by appending to the entries of the sent
\* URL one record of the served channel and of the id of that message; a send
\* that raises leaves the post index and the channel as they are.
C22_RecordsFollowDeliveries ==
    [][/\ posts' # posts =>
            \E p \in Procs :
                LET c == Head(scan[p].chans)
                    u == scan[p].batch[scan[p].item]
                IN  /\ scan[p].pc = "send" /\ scan'[p].pc = "sleep"
                    /\ Len(msgs'[c]) = Len(msgs[c]) + 1
                    /\ msgs'[c][Len(msgs'[c])].bot
                    /\ msgs'[c][Len(msgs'[c])].link = u
                    /\ posts_for(posts', u) =
                           Append(posts_for(posts, u),
                                  Rec(c, msgs'[c][Len(msgs'[c])].id))
                    /\ \A v \in URLs \ {u} : posts_for(posts', v) = posts_for(posts, v)
       /\ \A p \in Procs :
            (/\ scan[p].pc = "send" /\ scan'[p].pc # "sleep"
             /\ [scan'[p] EXCEPT !.raced = scan[p].raced] # scan[p]) =>
                posts' = posts /\ msgs' = msgs]_vars

\* The send of the first item of a pass raised and left no record, the send
\* of the second returned and is recorded.
C22_Witness ==
    \E p \in Procs :
        LET c == Head(scan[p].chans)
        IN  /\ scan[p].pc = "sleep" /\ scan[p].item = 2 /\ scan[p].failed
            /\ scan[p].batch[1] \notin scan[p].links
            /\ Records(scan[p].batch[1], c) = {}
            /\ Delivered(scan[p].batch[1], c) = {}
            /\ Records(scan[p].batch[2], c) # {}
            /\ Delivered(scan[p].batch[2], c) # {}

\* C23: in a cleanup cycle, whatever happens while the channel of a record is
\* resolved or its message deleted, the cycle goes on: to the deletion of
\* that message when the channel was resolved, else to the next record of the
\* URL that is to be tried, else to the check of the next URL, and it ends
\* only after the last URL.
C23_CleanupContinues ==
    [][(cleanup.pc \in {"resolve", "delete"} /\ cleanup' # cleanup) =>
           LET rest == SkipInactive(Tail(cleanup.recs), cleanup.active)
           IN  \/ /\ cleanup.pc = "resolve"
                  /\ cleanup'.pc = "delete"
                  /\ cleanup'.recs = cleanup.recs
               \/ /\ rest # <<>>
                  /\ cleanup'.pc = "resolve"
                  /\ cleanup'.recs = rest
                  /\ cleanup'.urls = cleanup.urls
               \/ /\ rest = <<>>
                  /\ Tail(cleanup.urls) # <<>>
                  /\ cleanup'.pc = "check"
                  /\ cleanup'.urls = Tail(cleanup.urls)
               \/ /\ rest = <<>>
                  /\ Tail(cleanup.urls) = <<>>
                  /\ cleanup'.pc = "done"]_vars

\* C24: every URL that is a key of the post index has at least one record, in
\* every state: after the load of a file as after record_post, remove_url and
\* remove_channel_posts.
C24_NoEmptyEntries ==
    \A i \in DOMAIN posts : posts[i].entries # <<>>

\* C25: in a delivery pass, a candidate is in the set of recently visible
\* links of the served channel, and so passed over, only if one of the recent
\* messages of that channel was written by the bot and has the candidate as
\* its second line.
C25_OwnMessagesOnly ==
    \A p \in Procs :
        scan[p].pc \in {"send", "sleep"} =>
            \A k \in DOMAIN scan[p].batch :
                scan[p].batch[k] \in scan[p].links =>
                    \E i \in DOMAIN Recent(msgs[Head(scan[p].chans)]) :
                        /\ Recent(msgs[Head(scan[p].chans)])[i].bot
                        /\ Recent(msgs[Head(scan[p].chans)])[i].link = scan[p].batch[k]

----------------------------------------------------------------------------
\* Two stores that differ only in the seen set. Every step of a scan or
\* cleanup cycle is taken twice: once from the store as it is, and, after the
\* bot has been put back to where the step began with another seen set, once
\* more. `ret` keeps what the second taking needs:
\*   mark    pre: everything but the seen set before the step,
\*           alt: the other seen set
\*   replay  target: everything but the seen sets after the first taking

\* Everything but the seen set
Others ==
    [posts |-> posts, usage |-> usage, disk |-> disk, now |-> now,
     admits |-> admits, lim |-> lim, win |-> win, nextId |-> nextId,
     channels |-> channels, msgs |-> msgs, scan |-> scan, cleanup |-> cleanup,
     regChanges |-> regChanges, writable |-> writable, sources |-> sources]

\* The same without the seen set of the file and the one the cleanup history
\* keeps
Observed(o) == [o EXCEPT !.disk.seen = {}, !.cleanup.pre.seen = {}]

\* The periodic scan and the cleanup cycle, one after the other
TwinStep ==
    \/ AllIdle /\ StartLoop
    \/ AllIdle /\ StartCleanup
    \/ ScanStep("loop")
    \/ CheckExpiry
    \/ CleanupResolve
    \/ CleanupDelete
    \/ CleanupReturn

Mark ==
    /\ ret.op = "none"
    /\ \E alt \in (SUBSET URLs) \ {seen} :
           ret' = [op |-> "mark", pre |-> Others, alt |-> alt]
    /\ UNCHANGED <<seen, posts, usage, disk, now, admits, lim, win, nextId, bot>>

First ==
    /\ ret.op = "mark"
    /\ ret.pre = Others
    /\ TwinStep

Rewind ==
    /\ ret.op = "mark"
    /\ ret.pre # Others
    /\ ret' = [op |-> "replay", target |-> Observed(Others)]
    /\ seen' = ret.alt
    /\ posts' = ret.pre.posts
    /\ usage' = ret.pre.usage
    /\ disk' = ret.pre.disk
    /\ now' = ret.pre.now
    /\ admits' = ret.pre.admits
    /\ lim' = ret.pre.lim
    /\ win' = ret.pre.win
    /\ nextId' = ret.pre.nextId
    /\ channels' = ret.pre.channels
    /\ msgs' = ret.pre.msgs
    /\ scan' = ret.pre.scan
    /\ cleanup' = ret.pre.cleanup
    /\ regChanges' = ret.pre.regChanges
    /\ writable' = ret.pre.writable
    /\ sources' = ret.pre.sources

\* The step of the first store, taken by the second
Replay ==
    /\ ret.op = "replay"
    /\ Observed(Others) # ret.target
    /\ TwinStep
    /\ Observed(Others)' = ret.target

Forget ==
    /\ ret.op = "replay"
    /\ Observed(Others) = ret.target
    /\ ret' = NoRet
    /\ UNCHANGED <<seen, posts, usage, disk, now, admits, lim, win, nextId, bot>>

\* One guild, one source, nothing delivered yet, two messages can be sent;
\* any seen set.
InitTwin ==
    /\ seen \in SUBSET URLs
    /\ posts = <<>>
    /\ usage = <<>>
    /\ writable = TRUE
    /\ disk = Snapshot(seen, posts, usage)
    /\ now = 0
    /\ ret = NoRet
    /\ admits = [k \in AllKeys |-> <<>>]
    /\ lim = 1
    /\ win = 1
    /\ nextId = MaxMsgId - 1
    /\ channels = <<[guild |-> 1, channel |-> 1]>>
    /\ msgs = [c \in Channels |-> <<>>]
    /\ scan = [p \in Handlers |-> IdleScan]
    /\ cleanup = IdleCleanup
    /\ regChanges = <<>>
    /\ sources = <<"s1">>

NextTwin ==
    \/ Mark
    \/ First
    \/ Rewind
    \/ Replay
    \/ Forget

SpecTwin == InitTwin /\ [][NextTwin]_vars

\* C26: whatever step a scan cycle (or a cleanup cycle) takes from one store,
\* it can take from the store that differs only in the seen set, with the
\* same messages sent, the same post index and the same position of every
\* handler afterwards; no step of a scan cycle changes the seen set, and a
\* step of the bot that changes it is the remove_url of the URL that cleanup
\* retires.
C26_SeenHasNoInfluence ==
    /\ [](ret.op = "replay" /\ Observed(Others) # ret.target => ENABLED Replay)
    /\ [][(seen' # seen /\ ret'.op = ret.op) =>
              /\ cleanup.pc \in {"check", "resolve", "delete"}
              /\ seen' = seen \ {Head(cleanup.urls)}
              /\ posts' = remove_url(posts, Head(cleanup.urls))
              /\ scan' = scan]_vars

\* The second store has sent a URL of its seen set to channel 1, as the first
\* store, whose seen set is another, did.
C26_Witness ==
    /\ ret.op = "replay"
    /\ Observed(Others) = ret.target
    /\ scan["loop"].pc = "sleep"
    /\ scan["loop"].batch[scan["loop"].item] \in seen
    /\ Delivered(scan["loop"].batch[scan["loop"].item], 1) # {}

----------------------------------------------------------------------------
\* The periodic scan and the cleanup cycle overlap, over two channels.

\* u1 is in channels 1 and 2, u2 in channel 1 only; one more message can be
\* sent.
InitOverlap ==
    /\ InitPosted
    /\ channels = <<[guild |-> 1, channel |-> 1], [guild |-> 2, channel |-> 2]>>
    /\ sources = <<"s1">>

NextOverlap ==
    \/ StartLoop
    \/ ScanStep("loop")
    \/ StartCleanup
    \/ CheckExpiry
    \/ CleanupResolve
    \/ CleanupDelete
    \/ CleanupReturn

SpecOverlap == InitOverlap /\ [][NextOverlap]_vars

\* The records of u that were added after cleanup read the records of u: those
\* behind the last record of its list.
AddedSince(u) ==
    LET es == posts_for(posts, u)
        last == cleanup.recs[Len(cleanup.recs)]
    IN  {i \in DOMAIN es : \E j \in DOMAIN es : es[j] = last /\ j < i}

\* C27: when cleanup, after the deletions of an expired URL, removes the URL
\* from the post index, every record of the URL that a delivery pass added
\* since cleanup read the records is of a message that is no longer there: no
\* message of the bot stays in a channel with its record gone.
C27_NoRecordLost ==
    [][(/\ cleanup.pc \in {"resolve", "delete"}
        /\ PostsHas(posts, Head(cleanup.urls))
        /\ ~PostsHas(posts', Head(cleanup.urls))) =>
           \A i \in AddedSince(Head(cleanup.urls)) :
               LET r == posts_for(posts, Head(cleanup.urls))[i]
               IN  \A k \in DOMAIN msgs'[r.channel_id] :
                       msgs'[r.channel_id][k].id # r.message_id]_vars

----------------------------------------------------------------------------
\* A cleanup cycle, then a periodic scan.

\* u1 was delivered to channels 1 and 2; two more messages can be sent. Channel
\* 1 may hold, before the message of the bot, a two-line message of another
\* author that shows u1.
InitRetire ==
    /\ seen = {"u1"}
    /\ posts = <<[url |-> "u1", entries |-> <<Rec(1, 1), Rec(2, 2)>>]>>
    /\ usage = <<>>
    /\ writable = TRUE
    /\ disk = Snapshot(seen, posts, usage)
    /\ now = 0
    /\ ret = NoRet
    /\ admits = [k \in AllKeys |-> <<>>]
    /\ lim = 1
    /\ win = 1
    /\ nextId = MaxMsgId - 1
    /\ channels = <<[guild |-> 1, channel |-> 1], [guild |-> 2, channel |-> 2]>>
    /\ msgs \in {[c \in Channels |-> <<Msg(c, TRUE, "u1")>>],
                [c \in Channels |->
                    IF c = 1 THEN <<Msg(0, FALSE, "u1"), Msg(c, TRUE, "u1")>>
                    ELSE <<Msg(c, TRUE, "u1")>>]}
    /\ scan = [p \in Handlers |-> IdleScan]
    /\ cleanup = IdleCleanup
    /\ regChanges = <<>>
    /\ sources = <<"s1">>

\* A cleanup cycle, then one scan cycle, then the next cleanup cycle: the scan
\* cycle begins when the cleanup cycle has ended, the cleanup task returns
\* when the scan cycle is over (or when it was cut short itself), and the
\* scan handler returns after it.
NextRetire ==
    \/ scan["loop"].pc = "idle" /\ StartCleanup
    \/ CheckExpiry
    \/ CleanupResolve
    \/ CleanupDelete
    \/ /\ cleanup.pc = "aborted" \/ scan["loop"].pc \in {"done", "aborted"}
       /\ CleanupReturn
    \/ cleanup.pc = "done" /\ StartLoop
    \/ /\ scan["loop"].pc \in {"done", "aborted"} => cleanup.pc = "idle"
       /\ ScanStep("loop")

SpecRetire == InitRetire /\ [][NextRetire]_vars

\* The cleanup cycle that has ended purged u as expired, and no message of
\* the records u had is left.
Retired(u) ==
    /\ cleanup.pc = "done"
    /\ u \in cleanup.expired
    /\ \A i \in DOMAIN posts_for(cleanup.pre.posts, u) :
           LET r == posts_for(cleanup.pre.posts, u)[i]
           IN  \A k \in DOMAIN msgs[r.channel_id] :
                   msgs[r.channel_id][k].id # r.message_id

\* C28: after a cleanup cycle has purged an expired URL and deleted its
\* messages, the store holds nothing of the URL when the next scan cycle
\* begins, and when that cycle, having fetched the URL, has ended without a
\* failure, every channel it served, unless a message of the bot that has no
\* record was left there before, has a new message and a new record of the
\* URL.
C28_RedeliveryAfterRetirement ==
    \A u \in URLs :
        Retired(u) =>
            /\ scan["loop"].pc = "fetch" => u \notin seen /\ ~PostsHas(posts, u)
            /\ (/\ scan["loop"].pc = "done"
                /\ ~scan["loop"].failed
                /\ \E k \in DOMAIN scan["loop"].batch : scan["loop"].batch[k] = u) =>
                   \A i \in DOMAIN scan["loop"].snap :
                       LET c == scan["loop"].snap[i]
                           old == {posts_for(cleanup.pre.posts, u)[n] :
                                       n \in DOMAIN posts_for(cleanup.pre.posts, u)}
                       IN  (\A k \in Delivered(u, c) :
                                \E j \in Records(u, c) :
                                    posts_for(posts, u)[j].message_id = msgs[c][k].id) =>
                               /\ Records(u, c) # {}
                               /\ Delivered(u, c) # {}
                               /\ \A j \in Records(u, c) :
                                      posts_for(posts, u)[j] \notin old

----------------------------------------------------------------------------
\* The store's operations, then save() and a new State on the same file.

\* save() writes the file, the process ends and a new one constructs State.
SaveRestart ==
    /\ writable
    /\ disk' = save(seen, posts, usage)
    /\ seen' = load(dumps(disk')).seen
    /\ posts' = load(dumps(disk')).posts
    /\ usage' = load(dumps(disk')).usage
    /\ ret' = [op |-> "reload", pre |-> Pre]
    /\ UNCHANGED <<now, admits, lim, win, nextId, bot>>

\* A new store without a file, which can be written; two records can be
\* added, and the calls of allow are made at one time.
InitRound ==
    /\ seen = {}
    /\ posts = <<>>
    /\ usage = <<>>
    /\ disk = NoFile
    /\ now = 0
    /\ ret = NoRet
    /\ admits = [k \in AllKeys |-> <<>>]
    /\ lim = MaxLimit
    /\ win = MaxWindow
    /\ nextId = MaxMsgId - 1
    /\ BotIdle
    /\ writable

NextRound ==
    \/ \E u \in URLs, c \in Channels : RecordPost(u, c)
    \/ \E u \in URLs : Remember(u)
    \/ \E u \in URLs : RemoveUrl(u)
    \/ \E c \in Channels : RemoveChannelPosts(c)
    \/ AllowCall(DurableKey)
    \/ SaveRestart

SpecRound == InitRound /\ [][NextRound]_vars

\* C29: the store constructed on the file that save() has just written has
\* the seen set, the post index (the same records in the same order under
\* the same URLs) and the usage ledger of the store that was saved.
C29_RoundTrip ==
    ret.op = "reload" =>
        /\ seen = ret.pre.seen
        /\ posts = ret.pre.posts
        /\ usage = ret.pre.usage
        /\ disk = Snapshot(seen, posts, usage)

\* A store with a seen URL, two records of one URL and a timestamp in the
\* ledger has been saved and loaded.
C29_Witness ==
    /\ ret.op = "reload"
    /\ seen # {}
    /\ \E i \in DOMAIN posts : Len(posts[i].entries) = 2
    /\ DurableKey \in DOMAIN usage
    /\ usage[DurableKey] # <<>>

=============================================================================
